---- MODULE Spec2Model ----
(***************************************************************************)
(* Appointment scheduling engine of the barbershop bot                     *)
(* (app/services/booking.py) together with the request handlers that call  *)
(* it (app/api/routers/make.py).  Every request runs in its own database    *)
(* session (app/api/deps.py), and the store is PostgreSQL at its default    *)
(* isolation level (READ COMMITTED): a SELECT sees what is committed when   *)
(* it runs, an UPDATE is applied to the row as it is when the UPDATE gets   *)
(* the row lock, and a session's writes become visible at its COMMIT.       *)
(*                                                                         *)
(* A handler is split where another request's commit can change what it    *)
(* reads next.  Statements that no commit can tell apart run in one step:  *)
(*   - the load of an appointment and the SELECT of working hours read     *)
(*     different tables, so every commit between them can be moved before  *)
(*     or after the pair;                                                  *)
(*   - a flushed INSERT or UPDATE is invisible to the other sessions until *)
(*     the COMMIT, and a session waiting for the row lock does nothing     *)
(*     else, so flush and commit are the one step Commit.                  *)
(*                                                                         *)
(* The module also holds the lifecycle of the Telegram bot                 *)
(* (app/bot/manager.py): coroutines of one event loop, which change hands  *)
(* at their awaits only, and the exchange with Make: the forwarding of an  *)
(* incoming message (app/bot/dispatcher.py, app/bot/make_client.py) and    *)
(* the callback with the reply (make_callback in app/api/routers/make.py). *)
(***************************************************************************)
EXTENDS Integers, FiniteSets, Sequences, TLC

\* ---------------------------------------------------------------- bounds
\* wall-clock times of a day: 0 .. SlotsPerDay - 1
SlotsPerDay == 4
\* concurrent requests, each in a session of its own
NumSessions == 2
\* engine requests (create, reschedule, cancel) a behaviour receives
MaxRequests == 3
\* concurrent callers of the bot manager
NumCallers == 2
\* Bot instances created before the manager receives no further call
MaxBots == 2
\* Telegram messages a behaviour receives
MaxMessages == 2

\* the rows of table masters
Masters == {1, 2}
\* an id no row of table masters has
UnknownMaster == 3
\* the master the concurrent requests compete for
Contended == {1}
Sessions == 1..NumSessions
Customers == {101}

\* an instant: wall-clock time t of day d, day 0 a Monday
At(d, t) == d * SlotsPerDay + t

\* the ranges <<start_at, end_at>> requests ask for
Ranges ==
    { <<At(0, 0), At(0, 1)>>,     \* Monday, first slot
      <<At(0, 1), At(0, 2)>>,     \* Monday, second slot: touches the first
      <<At(0, 0), At(0, 2)>>,     \* Monday, both slots: overlaps either
      <<At(0, 1), At(0, 1)>>,     \* empty
      <<At(0, 2), At(0, 1)>>,     \* inverted
      <<At(0, 1), At(1, 2)>>,     \* Monday to Tuesday, across midnight
      <<At(1, 0), At(1, 1)>> }    \* Tuesday, first slot

\* ranges that differ from Monday 1-2 in one endpoint
EndpointRanges ==
    { <<At(0, 1), At(0, 2)>>,
      <<At(0, 0), At(0, 2)>>,     \* starts earlier
      <<At(0, 1), At(0, 3)>> }    \* ends later

\* two Monday ranges, the second overlapping the first
MondayRanges ==
    { <<At(0, 0), At(0, 1)>>,
      <<At(0, 0), At(0, 2)>> }

\* ----------------------------------------------------- datetime helpers
\* datetime.weekday(): 0 = Monday .. 6 = Sunday; day 0 of the model is a Monday
weekday(dt) == (dt \div SlotsPerDay) % 7
\* datetime.timetz().replace(tzinfo=None): the wall-clock time, date dropped
timetz(dt) == dt % SlotsPerDay
\* datetime.date(): the calendar day
date(dt) == dt \div SlotsPerDay

VARIABLES
    working_hours,   \* committed rows of table working_hours
    appointments,    \* committed rows of table appointments: id -> row
    next_id,         \* the sequence behind appointments.id
    utcnow,          \* the clock: what datetime.utcnow() returns next
    requests,        \* number of engine requests received so far
    sess,            \* per session: the request it runs and where it stands
    response,        \* the answer to the engine request that finished last
    manager,         \* the fields of the BotManager and the holder of its lock
    calls,           \* per caller of the manager: the call it runs, where it stands
    tasks,           \* the polling tasks that are live (created and not done)
    created,         \* number of Bot instances created so far
    bot_settings,    \* the row of table bot_settings (id = 1), if there is one
    settings,        \* the configuration the process was started with
    make_requests,   \* committed rows of table make_requests: id -> row
    sends,           \* per make request: its background task _send_background
    callback,        \* the callback request in progress, if there is one
    outbox,          \* the <<chat_id, text>> pairs sent to Telegram so far
    reply            \* the status the callback that finished last was answered with

vars == <<working_hours, appointments, next_id, utcnow, requests, sess, response,
          manager, calls, tasks, created, bot_settings, settings,
          make_requests, sends, callback, outbox, reply>>

\* the tables, sessions and answers of the scheduling engine
booking_vars == <<working_hours, appointments, next_id, utcnow, requests, sess, response>>

\* the bot manager and the event loop it runs in
bot_vars == <<manager, calls, tasks, created, bot_settings, settings>>

\* the exchange with Make
make_vars == <<make_requests, sends, callback, outbox, reply>>

\* ------------------------------------------------------------ the tables
\* app/db/models.py: AppointmentStatus
AppointmentStatus == {"booked", "cancelled"}

\* cancelled_at is nullable; NULL is 0, the clock starts at 1 and every
\* reading advances it
NULL == 0

\* the object a session holds when it has loaded or built no Appointment
NoAppointment ==
    [master_id |-> 0, customer_telegram_id |-> 0, start_at |-> 0, end_at |-> 0,
     status |-> "none", created_at |-> NULL, cancelled_at |-> NULL]

\* app/db/models.py: WorkingHours rows of one master, as the admin sends them
Window(d, st, en) == [day_of_week |-> d, start_time |-> st, end_time |-> en]

\* bodies of PUT /masters/{id}/working-hours the model draws from
WorkingHoursBodies ==
    { {},                                                 \* closed all week
      {Window(0, 0, SlotsPerDay - 1)},                    \* Monday, all day
      {Window(0, 0, 1), Window(0, 1, SlotsPerDay - 1)} }  \* Monday, two windows

\* a body with one window: Monday, all day
MondayAllDay == {Window(0, 0, SlotsPerDay - 1)}

\* bodies the handler accepts as they are: it compares no start_time with
\* any end_time
UncheckedBodies ==
    { {},
      MondayAllDay,
      {Window(1, 0, 1)},          \* Tuesday, first slot
      {Window(1, 2, 1)} }         \* Tuesday, end_time before start_time

\* a body with two windows that overlap in Monday 1-2
OverlappingWindows == {Window(0, 0, 2), Window(0, 1, 3)}

\* a session that runs nothing
IdleSession ==
    [op |-> "idle", pc |-> "done", master_id |-> 0, customer_telegram_id |-> 0,
     start_at |-> 0, end_at |-> 0, appointment_id |-> 0,
     appt |-> NoAppointment, raced |-> FALSE,
     body |-> {}, deleted |-> {}, waits |-> {}]

\* ------------------------------------------------------ engine predicates
\* a range guard that lets the empty range through
invalid_range_strict(start_at, end_at) == end_at < start_at

\* the guard of create_appointment: TRUE iff it raises ValueError
invalid_range(start_at, end_at) == end_at <= start_at

\* assert_within_working_hours, `if not rows`: the master has no row for the
\* weekday of start_at
no_working_hours(master_id, start_at) ==
    ~ \E wh \in working_hours :
        wh.master_id = master_id /\ wh.day_of_week = weekday(start_at)

\* an availability test that takes the windows of the weekday as one union:
\* start_at within some window and end_at within some window
within_union_of_working_hours(master_id, start_at, end_at) ==
    LET rows == {wh \in working_hours :
                    wh.master_id = master_id /\ wh.day_of_week = weekday(start_at)}
    IN  /\ \E wh \in rows : wh.start_time <= timetz(start_at)
                              /\ timetz(start_at) <= wh.end_time
        /\ \E wh \in rows : wh.start_time <= timetz(end_at)
                              /\ timetz(end_at) <= wh.end_time

\* an availability test that reads the windows of every master
within_working_hours_any_master(master_id, start_at, end_at) ==
    \E wh \in working_hours :
        /\ wh.day_of_week = weekday(start_at)
        /\ wh.start_time <= timetz(start_at)
        /\ timetz(end_at) <= wh.end_time

\* an availability test that reads the windows of every weekday
within_working_hours_any_day(master_id, start_at, end_at) ==
    \E wh \in working_hours :
        /\ wh.master_id = master_id
        /\ wh.start_time <= timetz(start_at)
        /\ timetz(end_at) <= wh.end_time

\* assert_within_working_hours: TRUE iff it does not raise
within_working_hours(master_id, start_at, end_at) ==
    LET dow == weekday(start_at)
        rows == {wh \in working_hours :
                    wh.master_id = master_id /\ wh.day_of_week = dow}
        start_t == timetz(start_at)
        end_t == timetz(end_at)
    IN  /\ rows # {}
        /\ \E wh \in rows : wh.start_time <= start_t /\ end_t <= wh.end_time

\* a conflict test that only asks whether the new range starts inside the
\* existing one
overlaps_start_inside(a, master_id, start_at, end_at) ==
    /\ a.master_id = master_id
    /\ a.status = "booked"
    /\ a.start_at <= start_at
    /\ start_at < a.end_at

\* a conflict test that forgets the status: cancelled appointments count
overlaps_any_status(a, master_id, start_at, end_at) ==
    /\ a.master_id = master_id
    /\ a.start_at < end_at
    /\ start_at < a.end_at

\* a conflict test that forgets the master: any master's booking counts
overlaps_any_master(a, master_id, start_at, end_at) ==
    /\ a.status = "booked"
    /\ a.start_at < end_at
    /\ start_at < a.end_at

\* a conflict test on closed intervals: touching ranges count
overlaps_closed(a, master_id, start_at, end_at) ==
    /\ a.master_id = master_id
    /\ a.status = "booked"
    /\ a.start_at <= end_at
    /\ start_at <= a.end_at

\* the WHERE clause of assert_no_overlap for one committed row
overlaps(a, master_id, start_at, end_at) ==
    /\ a.master_id = master_id
    /\ a.status = "booked"
    /\ a.start_at < end_at
    /\ start_at < a.end_at

\* a conflict search that forgets exclude_id
no_overlap_without_exclude(master_id, start_at, end_at, exclude_id) ==
    ~ \E id \in DOMAIN appointments :
        overlaps(appointments[id], master_id, start_at, end_at)

\* assert_no_overlap: TRUE iff it does not raise; exclude_id = 0 is None
no_overlap(master_id, start_at, end_at, exclude_id) ==
    ~ \E id \in DOMAIN appointments :
        /\ overlaps(appointments[id], master_id, start_at, end_at)
        /\ (exclude_id # 0 => id # exclude_id)

\* load tests that forget the status: any stored appointment is found
reschedule_found_any_status(appointment_id) ==
    appointment_id \in DOMAIN appointments

cancel_found_any_status(appointment_id) ==
    appointment_id \in DOMAIN appointments

\* the `not appt or appt.status != AppointmentStatus.booked` test after
\* session.get: FALSE iff AppointmentNotFound is raised
reschedule_found(appointment_id) ==
    /\ appointment_id \in DOMAIN appointments
    /\ appointments[appointment_id].status = "booked"

cancel_found(appointment_id) ==
    /\ appointment_id \in DOMAIN appointments
    /\ appointments[appointment_id].status = "booked"

\* the exceptions of booking.py that derive from BookingError
BookingError == {"OutsideWorkingHours", "MasterBusy", "AppointmentNotFound"}

\* a mapping that answers every typed error as a validation failure
status_code_unprocessable(resp) ==
    CASE resp.result = "ok" -> IF resp.op = "create" THEN 201 ELSE 200
      [] resp.result \in BookingError -> 422
      [] OTHER -> 500

\* the HTTP status a handler answers with: the declared status on success,
\* the HTTPException it raises for the exceptions it catches, and the
\* framework's answer to an exception no handler catches
status_code(resp) ==
    CASE resp.result = "ok" -> IF resp.op = "create" THEN 201 ELSE 200
      [] resp.result = "OutsideWorkingHours" -> 422
      [] resp.result = "MasterBusy" -> 409
      [] resp.result = "AppointmentNotFound" -> 404
      [] OTHER -> 500

\* ----------------------------------------------------------- the session
\* str(e) of the exception the engine raises, which the handler passes on as
\* the detail of its HTTPException
message(result) ==
    CASE result = "OutsideWorkingHours" -> "Outside working hours"
      [] result = "MasterBusy" -> "Master is busy for this time range"
      [] result = "AppointmentNotFound" -> "Appointment not found"
      [] OTHER -> ""

\* the answer to a finished request: the operation, the appointment id in the
\* path (0 for create), the outcome ("ok", or the exception raised) and the
\* detail the caller reads.  open_days and busy are no part of the answer:
\* they keep, for a request the availability check refused, the weekdays on
\* which the master had windows when the check ran, and whether the conflict
\* check, had it run, would have found a conflict
Response(op, appointment_id, result) ==
    [op |-> op, appointment_id |-> appointment_id, result |-> result,
     detail |-> message(result), open_days |-> {}, busy |-> FALSE]

\* the answer when assert_within_working_hours raises: its two raise
\* statements differ in the message
OutsideWorkingHours(op, appointment_id, master_id, start_at, end_at) ==
    [Response(op, appointment_id, "OutsideWorkingHours") EXCEPT
        !.detail = IF no_working_hours(master_id, start_at)
                     THEN "No working hours configured for this day"
                     ELSE @,
        !.open_days = {wh.day_of_week : wh \in {w \in working_hours :
                                                    w.master_id = master_id}},
        !.busy = ~ no_overlap(master_id, start_at, end_at, appointment_id)]

\* app/bot/manager.py: BotStatus
BotStatus == {"stopped", "starting", "running", "stopping", "error"}

\* BotManager.__init__: no bot, dispatcher, Make client or polling task, the
\* BotState() defaults, the lock free (lock = 0; otherwise the caller that
\* holds it).  Objects are named by the number of the Bot they belong to.
InitialManager ==
    [status |-> "stopped", started_at |-> NULL, error_message |-> "",
     bot |-> NULL, dp |-> NULL, make_client |-> NULL, polling_task |-> NULL,
     lock |-> 0]

Callers == 1..NumCallers

\* a caller that runs no call of the manager; result is what its last call
\* returned ("-" before the first), token what its start() has read
IdleCall(result) == [op |-> "none", pc |-> "idle", result |-> result, token |-> ""]

\* bot tokens: one Telegram accepts and one it refuses; "" is no token
\* (None and the empty string are both false in `if not token`)
Tokens == {"good", "bad"}

\* table bot_settings without its row: session.get(BotSettings, 1) is None
NoBotSettings == [exists |-> FALSE, bot_token |-> "", is_enabled |-> TRUE]

\* str(e) of the exceptions a call may raise: an exception constructed
\* without arguments has the empty string
Exceptions == {"", "connection refused"}

Free(s) == sess[s].pc = "done"

\* a request is served by a session of its own (get_session): the sessions
\* are interchangeable, a new request takes the first one not in use
Fresh(s) == Free(s) /\ \A t \in Sessions : t < s => ~ Free(t)

\* app/db/models.py: MakeRequestStatus
MakeRequestStatus == {"created", "sent", "failed", "completed"}

\* no callback request is in progress
NoCallback == [pc |-> "idle", id |-> 0, status |-> "", text |-> ""]

\* the state after construction, for a process configured with bot_token
Started(bot_token) ==
    /\ working_hours = {}
    /\ appointments = <<>>
    /\ next_id = 1
    /\ utcnow = 1
    /\ requests = 0
    /\ sess = [s \in Sessions |-> IdleSession]
    /\ response = Response("none", 0, "none")
    /\ manager = InitialManager
    /\ calls = [c \in Callers |-> IdleCall("-")]
    /\ tasks = {}
    /\ created = 0
    /\ bot_settings = NoBotSettings
    /\ settings = [bot_token |-> bot_token]
    /\ make_requests = <<>>
    /\ sends = <<>>
    /\ callback = NoCallback
    /\ outbox = {}
    /\ reply = 0

\* a process configured without a bot token
Init == Started("")


\* a create of session t that has passed its conflict check and has not
\* committed, for the same master and a range overlapping [start_at, end_at)
RivalCreate(t, master_id, start_at, end_at) ==
    /\ sess[t].op = "create"
    /\ sess[t].pc = "commit"
    /\ sess[t].master_id = master_id
    /\ sess[t].start_at < end_at
    /\ start_at < sess[t].end_at

\* the request of session s ends with `result`
Finish(s, result) ==
    /\ sess' = [sess EXCEPT ![s] = IdleSession]
    /\ response' = Response(sess[s].op,
                            IF sess[s].op = "create" THEN 0 ELSE sess[s].appointment_id,
                            result)

\* --------------------------------------------------------------- actions
\* the rows a body gives master_id
rows_of(master_id, body) ==
    {[master_id |-> master_id, day_of_week |-> w.day_of_week,
      start_time |-> w.start_time, end_time |-> w.end_time] : w \in body}

\* PUT /masters/{master_id}/working-hours in its two statements, for the
\* interleavings of two replacements.  First session.get(Master), which ends
\* the request with 404 for an unknown id, and the DELETE: it marks the rows
\* of the master that are committed when it runs (`deleted`); where another
\* replacement in progress has marked one of them, this one waits for it.
DeleteWorkingHours(s, master_id, body) ==
    /\ Fresh(s)
    /\ IF master_id \notin Masters
         THEN UNCHANGED sess
         ELSE LET rows == {wh \in working_hours : wh.master_id = master_id}
              IN  sess' = [sess EXCEPT ![s] =
                     [IdleSession EXCEPT
                         !.op = "set_working_hours", !.pc = "commit_hours",
                         !.master_id = master_id, !.body = body,
                         !.deleted = rows,
                         !.waits = {t \in Sessions \ {s} :
                                       /\ sess[t].pc = "commit_hours"
                                       /\ sess[t].deleted \cap rows # {}}]]
    /\ UNCHANGED <<working_hours, appointments, next_id, utcnow, requests, response>>
    /\ UNCHANGED bot_vars
    /\ UNCHANGED make_vars

\* then the INSERTs of the body's rows (flushed by the commit) and the
\* COMMIT: the marked rows that are still there go, the new rows come.  Rows
\* another replacement committed after the DELETE ran were never marked.
CommitWorkingHours(s) ==
    /\ sess[s].pc = "commit_hours"
    /\ sess[s].waits = {}
    /\ working_hours' = (working_hours \ sess[s].deleted)
                            \cup rows_of(sess[s].master_id, sess[s].body)
    /\ sess' = [t \in Sessions |->
                  IF t = s THEN IdleSession
                  ELSE [sess[t] EXCEPT !.waits = @ \ {s}]]
    /\ UNCHANGED <<appointments, next_id, utcnow, requests, response>>
    /\ UNCHANGED bot_vars
    /\ UNCHANGED make_vars

\* PUT /masters/{master_id}/working-hours for a master of the table when no
\* other replacement is in progress: delete the master's rows, insert the
\* body's rows, commit (one transaction: visible to others at once)
SetWorkingHours(master_id, body) ==
    /\ working_hours' =
          {wh \in working_hours : wh.master_id # master_id}
            \cup {[master_id |-> master_id, day_of_week |-> w.day_of_week,
                   start_time |-> w.start_time, end_time |-> w.end_time] : w \in body}
    /\ UNCHANGED <<appointments, next_id, utcnow, requests, sess, response>>
    /\ UNCHANGED bot_vars
    /\ UNCHANGED make_vars

\* a create that asks the availability check before the range guard
CreateAppointment_availability_first(s, master_id, customer, start_at, end_at) ==
    /\ Fresh(s)
    /\ requests < MaxRequests
    /\ requests' = requests + 1
    /\ IF ~ within_working_hours(master_id, start_at, end_at)
         THEN /\ response' = OutsideWorkingHours("create", 0, master_id, start_at, end_at)
              /\ UNCHANGED sess
       ELSE IF invalid_range(start_at, end_at)
         THEN /\ response' = Response("create", 0, "ValueError")
              /\ UNCHANGED sess
       ELSE /\ sess' = [sess EXCEPT ![s] =
                  [IdleSession EXCEPT !.op = "create", !.pc = "overlap",
                                      !.master_id = master_id,
                                      !.customer_telegram_id = customer,
                                      !.start_at = start_at, !.end_at = end_at]]
            /\ UNCHANGED response
    /\ UNCHANGED <<working_hours, appointments, next_id, utcnow>>
    /\ UNCHANGED bot_vars
    /\ UNCHANGED make_vars

\* POST /appointments, up to the availability check: the range guard of
\* create_appointment, then assert_within_working_hours
CreateAppointment(s, master_id, customer, start_at, end_at) ==
    /\ Fresh(s)
    /\ requests < MaxRequests
    /\ requests' = requests + 1
    /\ IF invalid_range(start_at, end_at)
         THEN /\ response' = Response("create", 0, "ValueError")
              /\ UNCHANGED sess
       ELSE IF ~ within_working_hours(master_id, start_at, end_at)
         THEN /\ response' = OutsideWorkingHours("create", 0, master_id, start_at, end_at)
              /\ UNCHANGED sess
       ELSE /\ sess' = [sess EXCEPT ![s] =
                  [IdleSession EXCEPT !.op = "create", !.pc = "overlap",
                                      !.master_id = master_id,
                                      !.customer_telegram_id = customer,
                                      !.start_at = start_at, !.end_at = end_at]]
            /\ UNCHANGED response
    /\ UNCHANGED <<working_hours, appointments, next_id, utcnow>>
    /\ UNCHANGED bot_vars
    /\ UNCHANGED make_vars

\* PATCH /appointments/{id}, up to the availability check: session.get and
\* the status test of reschedule_appointment, then
\* assert_within_working_hours for the master of the loaded appointment
RescheduleAppointment(s, appointment_id, start_at, end_at) ==
    /\ Fresh(s)
    /\ requests < MaxRequests
    /\ requests' = requests + 1
    /\ IF ~ reschedule_found(appointment_id)
         THEN /\ response' = Response("reschedule", appointment_id, "AppointmentNotFound")
              /\ UNCHANGED sess
       ELSE IF ~ within_working_hours(appointments[appointment_id].master_id,
                                      start_at, end_at)
         THEN /\ response' = OutsideWorkingHours("reschedule", appointment_id,
                                                  appointments[appointment_id].master_id,
                                                  start_at, end_at)
              /\ UNCHANGED sess
       ELSE /\ sess' = [sess EXCEPT ![s] =
                  [IdleSession EXCEPT
                      !.op = "reschedule", !.pc = "overlap",
                      !.appointment_id = appointment_id,
                      !.appt = appointments[appointment_id],
                      !.master_id = appointments[appointment_id].master_id,
                      !.start_at = start_at, !.end_at = end_at]]
            /\ UNCHANGED response
    /\ UNCHANGED <<working_hours, appointments, next_id, utcnow>>
    /\ UNCHANGED bot_vars
    /\ UNCHANGED make_vars

\* a conflict check that runs after the write has reached the table: a
\* reschedule refused with MasterBusy leaves its new range behind
CheckNoOverlap_after_write(s) ==
    /\ sess[s].pc = "overlap"
    /\ LET r == sess[s]
           exclude_id == IF r.op = "reschedule" THEN r.appointment_id ELSE 0
       IN  IF no_overlap(r.master_id, r.start_at, r.end_at, exclude_id)
             THEN /\ sess' = [sess EXCEPT ![s].pc = "commit"]
                  /\ UNCHANGED <<response, appointments>>
             ELSE /\ Finish(s, "MasterBusy")
                  /\ appointments' =
                        IF r.op = "reschedule"
                          THEN [appointments EXCEPT
                                  ![r.appointment_id].start_at = r.start_at,
                                  ![r.appointment_id].end_at = r.end_at]
                          ELSE appointments
    /\ UNCHANGED <<working_hours, next_id, utcnow, requests>>
    /\ UNCHANGED bot_vars
    /\ UNCHANGED make_vars

\* create_appointment / reschedule_appointment: assert_no_overlap, which for
\* reschedule excludes the appointment's own id
CheckNoOverlap(s) ==
    /\ sess[s].pc = "overlap"
    /\ LET r == sess[s]
           exclude_id == IF r.op = "reschedule" THEN r.appointment_id ELSE 0
           rivals == {t \in Sessions \ {s} :
                         r.op = "create"
                         /\ RivalCreate(t, r.master_id, r.start_at, r.end_at)}
       IN  IF no_overlap(r.master_id, r.start_at, r.end_at, exclude_id)
             THEN /\ sess' = [t \in Sessions |->
                        IF t = s THEN [r EXCEPT !.pc = "commit", !.raced = (rivals # {})]
                        ELSE IF t \in rivals THEN [sess[t] EXCEPT !.raced = TRUE]
                        ELSE sess[t]]
                  /\ UNCHANGED response
             ELSE Finish(s, "MasterBusy")
    /\ UNCHANGED <<working_hours, appointments, next_id, utcnow, requests>>
    /\ UNCHANGED bot_vars
    /\ UNCHANGED make_vars

\* POST /appointments/{id}/cancel, the load: session.get and the status test
\* of cancel_appointment, then the new status and the stamp set on the object
CancelAppointment(s, appointment_id) ==
    /\ Fresh(s)
    /\ requests < MaxRequests
    /\ requests' = requests + 1
    /\ IF ~ cancel_found(appointment_id)
         THEN /\ response' = Response("cancel", appointment_id, "AppointmentNotFound")
              /\ UNCHANGED <<sess, utcnow>>
         ELSE /\ sess' = [sess EXCEPT ![s] =
                    [IdleSession EXCEPT
                        !.op = "cancel", !.pc = "commit",
                        !.appointment_id = appointment_id,
                        !.master_id = appointments[appointment_id].master_id,
                        !.appt = [appointments[appointment_id] EXCEPT
                                     !.status = "cancelled",
                                     !.cancelled_at = utcnow]]]
              /\ utcnow' = utcnow + 1
              /\ UNCHANGED response
    /\ UNCHANGED <<working_hours, appointments, next_id>>
    /\ UNCHANGED bot_vars
    /\ UNCHANGED make_vars

\* an INSERT that takes the customer from the wrong field of the command
new_appointment_wrong_customer(r) ==
    [master_id |-> r.master_id,
     customer_telegram_id |-> r.master_id,
     start_at |-> r.start_at,
     end_at |-> r.end_at,
     status |-> "booked",
     created_at |-> utcnow,
     cancelled_at |-> NULL]

\* an INSERT with the default of created_at given to cancelled_at as well
new_appointment_stamped(r) ==
    [master_id |-> r.master_id,
     customer_telegram_id |-> r.customer_telegram_id,
     start_at |-> r.start_at,
     end_at |-> r.end_at,
     status |-> "booked",
     created_at |-> utcnow,
     cancelled_at |-> utcnow]

\* the row the INSERT of create_appointment stores for the request r of a
\* session: the fields of the command, status booked, created_at from its
\* default, cancelled_at left NULL
new_appointment(r) ==
    [master_id |-> r.master_id,
     customer_telegram_id |-> r.customer_telegram_id,
     start_at |-> r.start_at,
     end_at |-> r.end_at,
     status |-> "booked",
     created_at |-> utcnow,
     cancelled_at |-> NULL]

\* an UPDATE that also renews created_at
rescheduled_touching_created_at(row, r) ==
    [row EXCEPT
        !.start_at = IF r.start_at # r.appt.start_at THEN r.start_at ELSE @,
        !.end_at = IF r.end_at # r.appt.end_at THEN r.end_at ELSE @,
        !.created_at = utcnow]

\* the row after the UPDATE of reschedule_appointment: it sets the columns
\* whose value the session changed on the object it loaded (r.appt)
rescheduled(row, r) ==
    [row EXCEPT
        !.start_at = IF r.start_at # r.appt.start_at THEN r.start_at ELSE @,
        !.end_at = IF r.end_at # r.appt.end_at THEN r.end_at ELSE @]

\* an UPDATE that sets the status and leaves cancelled_at alone
cancelled_without_stamp(row, r) ==
    [row EXCEPT !.status = r.appt.status]

\* the row after the UPDATE of cancel_appointment: status and cancelled_at as
\* the session set them on the object it loaded
cancelled(row, r) ==
    [row EXCEPT !.status = r.appt.status,
                !.cancelled_at = r.appt.cancelled_at]

\* session.flush() and the handler's session.commit(): the session's write
\* reaches the table.  create: the INSERT, with the id from the sequence and
\* created_at from its default.  reschedule and cancel: the UPDATE, which
\* sets only the columns the session changed, on the row as it is now.
Commit(s) ==
    /\ sess[s].pc = "commit"
    /\ LET r == sess[s]
           id == r.appointment_id
       IN  IF r.op = "create"
             THEN /\ appointments' = (next_id :> new_appointment(r)) @@ appointments
                  /\ next_id' = next_id + 1
                  /\ utcnow' = utcnow + 1
           ELSE IF r.op = "cancel"
             THEN /\ appointments' =
                        [appointments EXCEPT ![id] = cancelled(@, r)]
                  /\ UNCHANGED <<next_id, utcnow>>
           ELSE /\ appointments' =
                      [appointments EXCEPT ![id] = rescheduled(@, r)]
                /\ UNCHANGED <<next_id, utcnow>>
    /\ Finish(s, "ok")
    /\ UNCHANGED <<working_hours, requests>>
    /\ UNCHANGED bot_vars
    /\ UNCHANGED make_vars

\* ------------------------------------------------------- the bot manager
\* a lock that excludes nobody
locked_never == FALSE

\* asyncio.Lock.locked(): some caller is inside `async with self._lock`
locked == manager.lock # 0

\* a call of caller c returns: restart goes on from its stop() to its
\* start(), start and stop hand their value to the caller
Return(c, result) ==
    calls' = [calls EXCEPT ![c] =
                IF calls[c].op = "restart" /\ calls[c].pc \in {"stop", "close"}
                  THEN [@ EXCEPT !.pc = "start"]
                  ELSE IdleCall(result)]

\* update_bot_token: the token is written to the row, which is created
\* enabled when it is missing
update_bot_token(token) ==
    /\ bot_settings' = IF bot_settings.exists
                         THEN [bot_settings EXCEPT !.bot_token = token]
                         ELSE [exists |-> TRUE, bot_token |-> token, is_enabled |-> TRUE]
    /\ bot_settings' # bot_settings
    /\ UNCHANGED <<manager, calls, tasks, created, settings>>
    /\ UNCHANGED booking_vars
    /\ UNCHANGED make_vars

\* set_enabled: the flag is written to the row, which is created without a
\* token when it is missing
set_enabled(enabled) ==
    /\ bot_settings' = IF bot_settings.exists
                         THEN [bot_settings EXCEPT !.is_enabled = enabled]
                         ELSE [exists |-> TRUE, bot_token |-> "", is_enabled |-> enabled]
    /\ bot_settings' # bot_settings
    /\ UNCHANGED <<manager, calls, tasks, created, settings>>
    /\ UNCHANGED booking_vars
    /\ UNCHANGED make_vars

\* a caller calls start(), stop() or restart() (which logs, then awaits
\* stop())
Call(c, op) ==
    /\ calls[c].pc = "idle"
    /\ created < MaxBots
    /\ calls' = [calls EXCEPT ![c] =
                   [IdleCall("-") EXCEPT
                       !.op = op,
                       !.pc = IF op = "start" THEN "start" ELSE "stop"]]
    /\ UNCHANGED <<manager, tasks, created, bot_settings, settings>>
    /\ UNCHANGED booking_vars
    /\ UNCHANGED make_vars

\* start(): `async with self._lock`, the test of the status, which returns
\* True at once when the bot is running, and the assignments before the
\* first await
start_lock(c) ==
    /\ calls[c].pc = "start"
    /\ ~ locked
    /\ IF manager.status = "running"
         THEN /\ Return(c, "True")
              /\ UNCHANGED manager
         ELSE /\ manager' = [manager EXCEPT !.status = "starting",
                                            !.error_message = "",
                                            !.lock = c]
              /\ calls' = [calls EXCEPT ![c].pc = "token"]
    /\ UNCHANGED <<tasks, created, bot_settings, settings>>
    /\ UNCHANGED booking_vars
    /\ UNCHANGED make_vars

\* get_bot_token: the token of the row when the row has one, the configured
\* token otherwise; "" when there is none
get_bot_token ==
    IF bot_settings.exists /\ bot_settings.bot_token # ""
      THEN bot_settings.bot_token
      ELSE settings.bot_token

\* the except clause at the end of start(): the exception e leaves status
\* error and its text behind, whatever start() holds by then
start_failed(c, e) ==
    /\ manager' = [manager EXCEPT !.status = "error", !.error_message = e,
                                  !.lock = 0]
    /\ Return(c, "False")

\* start(): the await of get_bot_token; raises says whether the read fails
start_token(c, raises) ==
    /\ calls[c].pc = "token"
    /\ IF raises
         THEN \E e \in Exceptions : start_failed(c, e)
       ELSE IF get_bot_token = ""
         THEN /\ manager' = [manager EXCEPT
                               !.status = "stopped",
                               !.error_message = "No bot token configured",
                               !.lock = 0]
              /\ Return(c, "False")
       ELSE /\ calls' = [calls EXCEPT ![c].pc = "settings",
                                      ![c].token = get_bot_token]
            /\ UNCHANGED manager
    /\ UNCHANGED <<tasks, created, bot_settings, settings>>
    /\ UNCHANGED booking_vars
    /\ UNCHANGED make_vars

\* a test of the settings that takes every bot for enabled
disabled_never == FALSE

\* `bot_settings and not bot_settings.is_enabled`
disabled == bot_settings.exists /\ ~ bot_settings.is_enabled

\* start(): the await of get_bot_settings, the test of is_enabled, and
\* Bot(token) for an enabled bot
start_settings(c, raises) ==
    /\ calls[c].pc = "settings"
    /\ IF raises
         THEN /\ \E e \in Exceptions : start_failed(c, e)
              /\ UNCHANGED created
       ELSE IF disabled
         THEN /\ manager' = [manager EXCEPT
                               !.status = "stopped",
                               !.error_message = "Bot is disabled",
                               !.lock = 0]
              /\ Return(c, "False")
              /\ UNCHANGED created
       ELSE /\ manager' = [manager EXCEPT !.bot = created + 1]
            /\ created' = created + 1
            /\ calls' = [calls EXCEPT ![c].pc = "get_me"]
    /\ UNCHANGED <<tasks, bot_settings, settings>>
    /\ UNCHANGED booking_vars
    /\ UNCHANGED make_vars

\* start(): get_me, then the Make client, the dispatcher and the polling
\* task.  outcome: get_me raises (always for a token Telegram refuses; the
\* Bot is closed and dropped), the closing of the refused Bot or the
\* construction of client and dispatcher raises (the Bot stays), or the bot
\* runs
start_polling(c, outcome) ==
    /\ calls[c].pc = "get_me"
    /\ outcome = "ok" => calls[c].token = "good"
    /\ CASE outcome = "ok" ->
              /\ manager' = [manager EXCEPT
                    !.make_client = manager.bot,
                    !.dp = manager.bot,
                    !.polling_task = manager.bot,
                    !.status = "running",
                    !.started_at = manager.bot,
                    !.lock = 0]
              /\ tasks' = tasks \cup {manager.bot}
              /\ Return(c, "True")
         [] outcome = "invalid_token" ->
              /\ \E e \in Exceptions :
                    manager' = [manager EXCEPT
                        !.bot = NULL,
                        !.status = "error",
                        !.error_message = "Invalid token: " \o e,
                        !.lock = 0]
              /\ Return(c, "False")
              /\ UNCHANGED tasks
         [] OTHER ->
              /\ \E e \in Exceptions : start_failed(c, e)
              /\ UNCHANGED tasks
    /\ UNCHANGED <<created, bot_settings, settings>>
    /\ UNCHANGED booking_vars
    /\ UNCHANGED make_vars

\* stop(): `async with self._lock`, the test of the status, which returns
\* at once unless the bot is running or starting, then status stopping and
\* the cancel() of the polling task
stop_lock(c) ==
    /\ calls[c].pc = "stop"
    /\ ~ locked
    /\ IF manager.status \notin {"running", "starting"}
         THEN /\ Return(c, "None")
              /\ UNCHANGED manager
         ELSE /\ manager' = [manager EXCEPT !.status = "stopping", !.lock = c]
              /\ calls' = [calls EXCEPT ![c].pc = "close"]
    /\ UNCHANGED <<tasks, created, bot_settings, settings>>
    /\ UNCHANGED booking_vars
    /\ UNCHANGED make_vars

\* stop(): the await of the polling task, after which the task is done, and
\* the closing of the Make client and of the Bot.  outcome: all of it
\* succeeds, the await raises what the task ended with (nothing is dropped),
\* or a close raises (the task is dropped, client and Bot stay)
stop_close(c, outcome) ==
    /\ calls[c].pc = "close"
    /\ outcome = "task_raised" => manager.polling_task # NULL
    /\ outcome = "close_raised" => (manager.make_client # NULL \/ manager.bot # NULL)
    /\ tasks' = tasks \ {manager.polling_task}
    /\ CASE outcome = "ok" ->
              manager' =
                  [manager EXCEPT !.polling_task = NULL, !.make_client = NULL,
                                  !.bot = NULL, !.dp = NULL,
                                  !.status = "stopped", !.started_at = NULL,
                                  !.lock = 0]
         [] outcome = "task_raised" ->
              \E e \in Exceptions :
                 manager' = [manager EXCEPT !.status = "error",
                                            !.error_message = e, !.lock = 0]
         [] OTHER ->
              \E e \in Exceptions :
                 manager' = [manager EXCEPT !.polling_task = NULL,
                                            !.status = "error",
                                            !.error_message = e, !.lock = 0]
    /\ Return(c, "None")
    /\ UNCHANGED <<created, bot_settings, settings>>
    /\ UNCHANGED booking_vars
    /\ UNCHANGED make_vars

\* the polling task t ends by itself: start_polling returns or raises
polling_ends(t) ==
    /\ t \in tasks
    /\ tasks' = tasks \ {t}
    /\ UNCHANGED <<manager, calls, created, bot_settings, settings>>
    /\ UNCHANGED booking_vars
    /\ UNCHANGED make_vars

\* app/api/deps.py, get_bot: the status it answers with, 503 when the
\* manager holds no Bot
get_bot(bot) == IF bot = NULL THEN 503 ELSE 200

\* -------------------------------------------------- the exchange with Make
\* the telegram chats messages come from
Chats == {7, 8}

\* the texts Make answers with
Texts == {"hello"}

\* what a POST to the webhook ends with: a response without error status,
\* one of the httpx exceptions, or the HTTPStatusError of raise_for_status
PostOutcomes ==
    {"ok", "ConnectError", "ReadTimeout", "RemoteProtocolError", "HTTPStatusError"}

\* uuid4().hex of the n-th message: no two are alike, none is an id;
\* uuid4(0) is a correlation id no message was given
uuid4(n) == 100 + n

\* an except clause that catches every failure of the POST
caught_always(outcome) == outcome # "ok"

\* the except clause of send_incoming_message: the exceptions it catches
caught(outcome) ==
    outcome \in {"ConnectError", "ReadTimeout", "RemoteProtocolError"}

\* on_any_message: the row is inserted with status created and committed,
\* then the background task is created; it has sent nothing yet
on_any_message(chat_id) ==
    /\ Cardinality(DOMAIN make_requests) < MaxMessages
    /\ LET id == Cardinality(DOMAIN make_requests) + 1
       IN  /\ make_requests' =
                 (id :> [correlation_id |-> uuid4(id), chat_id |-> chat_id,
                         status |-> "created", last_error |-> <<>>])
                   @@ make_requests
           /\ sends' = (id :> [pc |-> "post", attempt |-> 0, posts |-> 0,
                               delivered |-> FALSE, raised |-> <<>>])
                         @@ sends
    /\ UNCHANGED <<callback, outbox, reply>>
    /\ UNCHANGED booking_vars
    /\ UNCHANGED bot_vars

\* send_incoming_message, one pass of `for attempt in range(3)`: the POST
\* and raise_for_status.  On success the function returns; an exception the
\* except clause catches is raised again in the last pass and followed by a
\* sleep and the next pass otherwise; any other exception leaves the
\* function at once.  raised is <<>> or holds the exception that left it.
\* Make has the payload (delivered) unless no connection was made.
post(id, outcome) ==
    /\ id \in DOMAIN sends
    /\ sends[id].pc = "post"
    /\ LET r == [sends[id] EXCEPT
                    !.posts = @ + 1,
                    !.delivered = @ \/ outcome # "ConnectError"]
       IN  sends' = [sends EXCEPT ![id] =
              IF outcome = "ok"
                THEN [r EXCEPT !.pc = "store"]
              ELSE IF caught(outcome) /\ r.attempt # 2
                THEN [r EXCEPT !.attempt = @ + 1]
              ELSE [r EXCEPT !.pc = "store", !.raised = <<outcome>>]]
    /\ UNCHANGED <<make_requests, callback, outbox, reply>>
    /\ UNCHANGED booking_vars
    /\ UNCHANGED bot_vars

\* a row that keeps no text of the failure
stored_without_error(row, raised) ==
    [row EXCEPT !.status = IF raised = <<>> THEN "sent" ELSE "failed",
                !.last_error = <<>>]

\* the row as _send_background leaves it: sent and last_error None after a
\* send that returned, failed and the text of the exception after one that
\* raised
stored(row, raised) ==
    [row EXCEPT !.status = IF raised = <<>> THEN "sent" ELSE "failed",
                !.last_error = raised]

\* _send_background after the send: session.get, the two assignments and
\* the commit, whose UPDATE sets the status whatever it is by then
store(id) ==
    /\ id \in DOMAIN sends
    /\ sends[id].pc = "store"
    /\ make_requests' = [make_requests EXCEPT ![id] = stored(@, sends[id].raised)]
    /\ sends' = [sends EXCEPT ![id].pc = "done"]
    /\ UNCHANGED <<callback, outbox, reply>>
    /\ UNCHANGED booking_vars
    /\ UNCHANGED bot_vars

\* the ids of the rows with the correlation id (at most one: the column is
\* unique)
by_correlation_id(correlation_id) ==
    {id \in DOMAIN make_requests :
        make_requests[id].correlation_id = correlation_id}

\* POST /make/callback up to the send: the dependency get_bot, which answers
\* 503 when the manager holds no Bot (bot is what it holds), the SELECT by
\* correlation id, and 404 when there is no row.  Make knows the correlation
\* id of a row once it has the payload.
make_callback(correlation_id, text, bot) ==
    /\ callback = NoCallback
    /\ \A id \in by_correlation_id(correlation_id) : sends[id].delivered
    /\ IF get_bot(bot) = 503
         THEN /\ reply' = 503
              /\ UNCHANGED callback
       ELSE IF by_correlation_id(correlation_id) = {}
         THEN /\ reply' = 404
              /\ UNCHANGED callback
       ELSE LET id == CHOOSE i \in by_correlation_id(correlation_id) : TRUE
            IN  /\ callback' = [pc |-> "send", id |-> id,
                                status |-> make_requests[id].status,
                                text |-> text]
                /\ UNCHANGED reply
    /\ UNCHANGED <<make_requests, sends, outbox>>
    /\ UNCHANGED booking_vars
    /\ UNCHANGED bot_vars

\* make_callback from the send on: send_text to the chat of the row; when it
\* raises the session is closed without commit and the framework answers
\* 500; otherwise status completed is set on the loaded object and
\* committed, an UPDATE unless the object was loaded completed
callback_send(raises) ==
    /\ callback.pc = "send"
    /\ LET id == callback.id
       IN  IF raises
             THEN /\ reply' = 500
                  /\ UNCHANGED <<make_requests, outbox>>
             ELSE /\ outbox' = outbox \cup {<<make_requests[id].chat_id, callback.text>>}
                  /\ make_requests' =
                        IF callback.status = "completed"
                          THEN make_requests
                          ELSE [make_requests EXCEPT ![id].status = "completed"]
                  /\ reply' = 200
    /\ callback' = NoCallback
    /\ UNCHANGED sends
    /\ UNCHANGED booking_vars
    /\ UNCHANGED bot_vars

\* ----------------------------------------------------- the specifications
\* a request arrives at session s, for one of the masters ms and with one of
\* the ranges rs
Begin(s, ms, rs) ==
    \/ \E m \in ms, c \in Customers, r \in rs :
          CreateAppointment(s, m, c, r[1], r[2])
    \/ \E id \in 1..next_id, r \in rs :
          RescheduleAppointment(s, id, r[1], r[2])
    \/ \E id \in 1..next_id : CancelAppointment(s, id)

\* a request in progress runs its next statement
Step(s) ==
    \/ CheckNoOverlap(s)
    \/ Commit(s)

\* the administrator replaces the working hours of one of the masters ms by
\* one of the bodies bs
Admin(ms, bs) == \E m \in ms, body \in bs : SetWorkingHours(m, body)

\* concurrent requests: any session may start or continue at any time
Next ==
    \/ Admin(Contended, WorkingHoursBodies)
    \/ \E s \in Sessions : Begin(s, Contended, Ranges)
    \/ \E s \in Sessions : Step(s)

Spec == Init /\ [][Next]_vars

\* concurrent requests while the working hours, once set, stay as they are:
\* two windows that overlap, and ranges that fit one of them or both
NextWindows ==
    \/ Admin(Contended, {OverlappingWindows})
    \/ \E s \in Sessions : Begin(s, Contended, EndpointRanges)
    \/ \E s \in Sessions : Step(s)

SpecWindows == Init /\ [][NextWindows]_vars

\* concurrent requests for either master: each master is opened on Monday at
\* some time, and the requests ask for Monday ranges that overlap
NextMasters ==
    \/ Admin(Masters, {MondayAllDay})
    \/ \E s \in Sessions : Begin(s, Masters, MondayRanges)
    \/ \E s \in Sessions : Step(s)

SpecMasters == Init /\ [][NextMasters]_vars

\* replacements of working hours that may overlap each other, for the
\* masters and an unknown id, with bodies taken as they come
NextAdmin ==
    \/ \E s \in Sessions, m \in Masters \cup {UnknownMaster}, body \in UncheckedBodies :
          DeleteWorkingHours(s, m, body)
    \/ \E s \in Sessions : CommitWorkingHours(s)

SpecAdmin == Init /\ [][NextAdmin]_vars

\* the process is started with a configured token or with none
InitBot == \E token \in {"", "good"} : Started(token)

\* concurrent calls of the bot manager and changes of its settings, with
\* every outcome of the reads, of Telegram and of the closing calls
NextBot ==
    \/ \E token \in Tokens : update_bot_token(token)
    \/ \E enabled \in BOOLEAN : set_enabled(enabled)
    \/ \E c \in Callers, op \in {"start", "stop", "restart"} : Call(c, op)
    \/ \E c \in Callers : start_lock(c)
    \/ \E c \in Callers, raises \in BOOLEAN : start_token(c, raises)
    \/ \E c \in Callers, raises \in BOOLEAN : start_settings(c, raises)
    \/ \E c \in Callers, outcome \in {"invalid_token", "exception", "ok"} :
          start_polling(c, outcome)
    \/ \E c \in Callers : stop_lock(c)
    \/ \E c \in Callers, outcome \in {"ok", "task_raised", "close_raised"} :
          stop_close(c, outcome)
    \/ \E t \in tasks : polling_ends(t)

SpecBot == InitBot /\ [][NextBot]_vars

\* every background task has finished
Forwarded == \A id \in DOMAIN sends : sends[id].pc = "done"

\* messages are forwarded to Make one after the other; its answer to the
\* POST arrives or is lost, and it answers the message by the callback, at
\* any time from the first POST on; the callback is also called with a
\* correlation id no row has
NextMake ==
    \/ Forwarded /\ \E chat_id \in Chats : on_any_message(chat_id)
    \/ \E id \in 1..MaxMessages, outcome \in {"ok", "ReadTimeout"} : post(id, outcome)
    \/ \E id \in 1..MaxMessages : store(id)
    \/ \E id \in 0..MaxMessages, text \in Texts, bot \in {NULL, 1} :
          make_callback(uuid4(id), text, bot)
    \/ \E raises \in BOOLEAN : callback_send(raises)

SpecMake == Init /\ [][NextMake]_vars

\* the background tasks alone
NextSend ==
    \/ \E chat_id \in Chats : on_any_message(chat_id)
    \/ \E id \in 1..MaxMessages, outcome \in PostOutcomes : post(id, outcome)
    \/ \E id \in 1..MaxMessages : store(id)

SpecSend == Init /\ [][NextSend]_vars

\* every POST is answered or times out (the client's timeout), and every
\* sleep ends: a pass of the loop that has begun is completed
SpecSendLive ==
    SpecSend /\ \A id \in 1..MaxMessages :
                   WF_vars(\E outcome \in PostOutcomes : post(id, outcome))

\* requests executed one at a time: a request starts, and the working hours
\* are replaced, only when no request is in progress
Quiet == \A s \in Sessions : Free(s)

NextSeq ==
    \/ Quiet /\ Admin(Masters, WorkingHoursBodies)
    \/ Quiet /\ \E s \in Sessions : Begin(s, Masters, Ranges)
    \/ \E s \in Sessions : Step(s)

SpecSeq == Init /\ [][NextSeq]_vars

\* ------------------------------------------------------------ properties
Stored == DOMAIN appointments

Booked(id) == appointments[id].status = "booked"

Cancelled(id) == appointments[id].status = "cancelled"

\* the ranges of two stored appointments overlap
RangesOverlap(a, b) ==
    /\ appointments[a].start_at < appointments[b].end_at
    /\ appointments[b].start_at < appointments[a].end_at

\* some window of the master of row a, for the weekday of its start, holds
\* its wall-clock range
InSomeWindow(a) ==
    \E wh \in working_hours :
        /\ wh.master_id = a.master_id
        /\ wh.day_of_week = weekday(a.start_at)
        /\ wh.start_time <= timetz(a.start_at)
        /\ timetz(a.end_at) <= wh.end_time

\* C1: with the requests executed one at a time, no two distinct booked
\* appointments of one master ever overlap.
C1_NoOverlapSequential ==
    \A a \in Stored, b \in Stored :
        (a # b /\ Booked(a) /\ Booked(b)
              /\ appointments[a].master_id = appointments[b].master_id)
            => ~ RangesOverlap(a, b)

\* two booked appointments of one master, the second starting where the first ends
C1_TwoBookedTouching ==
    \E a \in Stored, b \in Stored :
        /\ a # b /\ Booked(a) /\ Booked(b)
        /\ appointments[a].master_id = appointments[b].master_id
        /\ appointments[a].end_at = appointments[b].start_at
        /\ appointments[a].start_at < appointments[a].end_at
        /\ appointments[b].start_at < appointments[b].end_at

\* C2: under every interleaving of concurrent requests, the committed table
\* never holds two booked appointments of one master whose ranges overlap.
C2_NoOverlapConcurrent ==
    \A m \in Masters :
        LET booked == {id \in Stored : Booked(id) /\ appointments[id].master_id = m}
        IN  \A a \in booked : \A b \in booked \ {a} : ~ RangesOverlap(a, b)

\* C3: of two creates for one master with overlapping ranges that have both
\* passed the conflict check before either committed, one fails: a create
\* that raced this way does not succeed once a conflicting booking is committed.
C3_RacingCreateFails ==
    [][\A s \in Sessions :
          (sess[s].op = "create" /\ sess[s].raced /\ Commit(s))
            => no_overlap(sess[s].master_id, sess[s].start_at, sess[s].end_at, 0)]_vars

\* C4: whenever an appointment is created or its range is rewritten, the range
\* it then has lies within one window of its master for the weekday of its
\* start.  (Under SpecWindows the windows never change once they are set, so
\* the windows at the write are the windows the request checked.)
C4_WrittenRangeInWindow ==
    [][\A id \in DOMAIN appointments' :
          (/\ appointments'[id].status = "booked"
           /\ \/ id \notin Stored
              \/ appointments'[id].start_at # appointments[id].start_at
              \/ appointments'[id].end_at # appointments[id].end_at)
            => InSomeWindow(appointments'[id])]_vars

\* C5: every booked appointment has start_at < end_at.
C5_BookedRangeNotEmpty ==
    \A id \in Stored :
        Booked(id) => appointments[id].start_at < appointments[id].end_at

\* C6: a create or reschedule whose start_at and end_at lie on different
\* calendar days never passes the availability check.
C6_AcrossMidnightRejected ==
    \A s \in Sessions :
        (sess[s].op \in {"create", "reschedule"} /\ sess[s].pc \in {"overlap", "commit"})
            => date(sess[s].start_at) = date(sess[s].end_at)

\* C7: the status of an appointment changes only from booked to cancelled, and
\* a reschedule or cancel that arrives for a cancelled appointment fails with
\* AppointmentNotFound and changes no stored appointment.
C7_CancelledIsTerminal ==
    [][\A id \in Stored :
          /\ id \in DOMAIN appointments'
          /\ appointments'[id].status # appointments[id].status
                => (Booked(id) /\ appointments'[id].status = "cancelled")
          /\ Cancelled(id) =>
                \A s \in Sessions :
                    (\/ \E r \in Ranges : RescheduleAppointment(s, id, r[1], r[2])
                     \/ CancelAppointment(s, id))
                        => /\ response'.result = "AppointmentNotFound"
                           /\ appointments' = appointments
                           /\ sess' = sess]_vars

\* a reschedule of a cancelled appointment has been answered AppointmentNotFound
C7_RescheduleOfCancelledRefused ==
    \E id \in Stored :
        /\ Cancelled(id)
        /\ response = Response("reschedule", id, "AppointmentNotFound")

\* C8: once a cancel of an appointment has succeeded, a cancel that arrives
\* for it afterwards fails with AppointmentNotFound and leaves cancelled_at
\* as it is.
C8_SecondCancelNotFound ==
    [][\A id \in Stored, s \in Sessions :
          (appointments[id].cancelled_at # NULL /\ CancelAppointment(s, id))
            => /\ response' = Response("cancel", id, "AppointmentNotFound")
               /\ appointments'[id].cancelled_at = appointments[id].cancelled_at
               /\ utcnow' = utcnow]_vars

\* a cancel of an appointment cancelled before has been answered AppointmentNotFound
C8_SecondCancelRefused ==
    \E id \in Stored :
        /\ Cancelled(id)
        /\ appointments[id].cancelled_at # NULL
        /\ response = Response("cancel", id, "AppointmentNotFound")

\* C9: of two concurrent cancels of one booked appointment one fails: a cancel
\* succeeds only while the appointment is booked, and the cancelled_at of a
\* cancelled appointment is never written again.
C9_CancelledExactlyOnce ==
    [][/\ \A s \in Sessions :
            (sess[s].op = "cancel" /\ Commit(s)) => Booked(sess[s].appointment_id)
       /\ \A id \in Stored :
            Cancelled(id) =>
                appointments'[id].cancelled_at = appointments[id].cancelled_at]_vars

\* C10: once the cancellation of an appointment is committed, its start_at
\* and end_at never change.
C10_CancelledRangeFrozen ==
    [][\A id \in Stored :
          Cancelled(id) =>
              /\ appointments'[id].start_at = appointments[id].start_at
              /\ appointments'[id].end_at = appointments[id].end_at]_vars

\* the step is one in which session s receives a request of kind op: only
\* such a step changes `requests`; the request is refused at once (and
\* `response` then says what it was) or session s goes on to run it
Receives(s, op) ==
    /\ requests' # requests
    /\ Fresh(s)
    /\ IF sess' = sess THEN response'.op = op ELSE sess'[s].op = op

\* the range the request of session s asks for overlaps the range of stored
\* appointment id, which is of the master the request is for
RequestOverlaps(s, id) ==
    /\ appointments[id].master_id = sess[s].master_id
    /\ appointments[id].start_at < sess[s].end_at
    /\ sess[s].start_at < appointments[id].end_at

\* the booked appointments the request of session s is in conflict with; a
\* reschedule is never in conflict with the appointment it moves
Conflicting(s) ==
    {id \in Stored :
        /\ Booked(id)
        /\ RequestOverlaps(s, id)
        /\ ~ (sess[s].op = "reschedule" /\ id = sess[s].appointment_id)}

\* C11: a create or reschedule whose range overlaps a cancelled appointment of
\* the same master and no booked one passes the conflict check (it is not
\* answered MasterBusy), so that only its commit is left.
C11_CancelledNotInConflict ==
    [][\A s \in Sessions :
          (/\ CheckNoOverlap(s)
           /\ \E id \in Stored : Cancelled(id) /\ RequestOverlaps(s, id)
           /\ Conflicting(s) = {})
            => (sess'[s].pc = "commit" /\ response' = response)]_vars

\* a booked appointment created after the cancellation of an appointment of
\* the same master whose range it overlaps
C11_BookedOverCancelled ==
    \E a \in Stored, b \in Stored :
        /\ Cancelled(a) /\ Booked(b)
        /\ appointments[a].master_id = appointments[b].master_id
        /\ RangesOverlap(a, b)
        /\ appointments[b].created_at > appointments[a].cancelled_at

\* C12: a reschedule of a booked appointment to a range that overlaps its own
\* current range and no other booked appointment of its master passes the
\* conflict check; this includes the reschedule to its unchanged range.
C12_NoConflictWithItself ==
    [][\A s \in Sessions :
          (/\ CheckNoOverlap(s)
           /\ sess[s].op = "reschedule"
           /\ Booked(sess[s].appointment_id)
           /\ RequestOverlaps(s, sess[s].appointment_id)
           /\ Conflicting(s) = {})
            => (sess'[s].pc = "commit" /\ response' = response)]_vars

\* a reschedule to the range the appointment already has is past the conflict check
C12_RescheduleToSameRange ==
    \E s \in Sessions :
        /\ sess[s].op = "reschedule"
        /\ sess[s].pc = "commit"
        /\ sess[s].start_at = sess[s].appt.start_at
        /\ sess[s].end_at = sess[s].appt.end_at
        /\ sess[s].start_at < sess[s].end_at

\* C13: a create with end_at <= start_at is answered by the range guard's
\* error at once: the request never reaches the availability or the conflict
\* check, whatever they would say, and no appointment is inserted.
C13_InvalidRangeFirst ==
    [][\A s \in Sessions : Receives(s, "create") =>
       \A m \in Masters, c \in Customers, r \in Ranges :
          (r[2] <= r[1] /\ CreateAppointment(s, m, c, r[1], r[2]))
            => /\ response' = Response("create", 0, "ValueError")
               /\ appointments' = appointments
               /\ sess' = sess]_vars

\* the range guard has answered a create; every master is closed all week
C13_GuardAnsweredWhileClosed ==
    /\ response = Response("create", 0, "ValueError")
    /\ working_hours = {}
    /\ appointments = <<>>

\* C14: every failure is one of the engine's typed errors and is answered
\* with the status the handlers map it to (404, 409 or 422); in particular
\* a create with end_at <= start_at is.
C14_FailuresAreTyped ==
    response.result \notin {"none", "ok"}
        => /\ response.result \in BookingError
           /\ status_code(response) \in {404, 409, 422}

\* C15: for a non-empty range that has passed the availability check, the
\* conflict check answers MasterBusy, and ends the request with nothing
\* written, if and only if some booked appointment of the same master (other
\* than the rescheduled one) has start_at < end and start < end_at;
\* otherwise the request goes on to its commit.
C15_BusyIffConflict ==
    [][\A s \in Sessions :
          (CheckNoOverlap(s) /\ sess[s].start_at < sess[s].end_at)
            => IF Conflicting(s) # {}
                 THEN /\ response'.op = sess[s].op
                      /\ response'.result = "MasterBusy"
                      /\ sess'[s] = IdleSession
                      /\ appointments' = appointments
                 ELSE /\ sess'[s].pc = "commit"
                      /\ response' = response]_vars

\* a create has been answered MasterBusy while its master has a booked appointment
C15_CreateAnsweredBusy ==
    /\ response = Response("create", 0, "MasterBusy")
    /\ \E id \in Stored : Booked(id)

\* stored appointment id touches the range of the request of session s: it
\* ends where the range starts, or starts where the range ends
Touches(s, id) ==
    /\ appointments[id].master_id = sess[s].master_id
    /\ appointments[id].start_at < appointments[id].end_at
    /\ \/ appointments[id].end_at = sess[s].start_at
       \/ appointments[id].start_at = sess[s].end_at

\* C16: a create or reschedule for a non-empty range that touches a booked
\* appointment of the same master, and overlaps no booked appointment of it,
\* passes the conflict check.
C16_TouchingIsNoConflict ==
    [][\A s \in Sessions :
          (/\ CheckNoOverlap(s)
           /\ sess[s].start_at < sess[s].end_at
           /\ \E id \in Stored : Booked(id) /\ Touches(s, id)
           /\ Conflicting(s) = {})
            => (sess'[s].pc = "commit" /\ response' = response)]_vars

\* a create is past the conflict check while a booked appointment of its
\* master ends where its range starts
C16_TouchingCreatePastCheck ==
    \E s \in Sessions, id \in Stored :
        /\ sess[s].op = "create"
        /\ sess[s].pc = "commit"
        /\ Booked(id)
        /\ appointments[id].master_id = sess[s].master_id
        /\ appointments[id].start_at < appointments[id].end_at
        /\ appointments[id].end_at = sess[s].start_at

\* one window of master m, for the weekday of start_at, holds the wall-clock
\* range from start_at to end_at
FitsOneWindow(m, start_at, end_at) ==
    \E wh \in working_hours :
        /\ wh.master_id = m
        /\ wh.day_of_week = weekday(start_at)
        /\ wh.start_time <= timetz(start_at)
        /\ timetz(end_at) <= wh.end_time

\* C17: the availability check of create and of reschedule passes if and
\* only if one window of the master, for the weekday of start_at, holds the
\* range; otherwise the request is answered OutsideWorkingHours (so a range
\* that only two adjacent windows together cover is refused).
C17_SingleWindowContainment ==
    [][\A s \in Sessions :
          /\ Receives(s, "create") =>
              \A r \in Ranges, m \in Masters, c \in Customers :
                (r[1] < r[2] /\ CreateAppointment(s, m, c, r[1], r[2]))
                  => IF FitsOneWindow(m, r[1], r[2])
                       THEN sess'[s].pc = "overlap" /\ response' = response
                       ELSE response'.result = "OutsideWorkingHours" /\ sess' = sess
          /\ Receives(s, "reschedule") =>
              \A r \in Ranges, id \in Stored :
                (Booked(id) /\ RescheduleAppointment(s, id, r[1], r[2]))
                  => IF FitsOneWindow(appointments[id].master_id, r[1], r[2])
                       THEN sess'[s].pc = "overlap" /\ response' = response
                       ELSE response'.result = "OutsideWorkingHours" /\ sess' = sess]_vars

\* a request was refused although its master had windows for the weekday of
\* start_at: none of them held the range
C17_RefusedDespiteWindows ==
    /\ response.result = "OutsideWorkingHours"
    /\ response.detail = "Outside working hours"
    /\ response.open_days # {}

\* master m has no window for the weekday of start_at
ClosedOn(m, start_at) ==
    \A wh \in working_hours :
        wh.master_id = m => wh.day_of_week # weekday(start_at)

\* C18: a create or reschedule whose master has no window for the weekday of
\* start_at is answered OutsideWorkingHours, whatever windows the master has
\* on other weekdays, and nothing is written.
C18_ClosedDayRefused ==
    [][\A s \in Sessions :
          /\ Receives(s, "create") =>
              \A r \in Ranges, m \in Masters, c \in Customers :
                (/\ r[1] < r[2]
                 /\ ClosedOn(m, r[1])
                 /\ CreateAppointment(s, m, c, r[1], r[2]))
                  => /\ response'.op = "create"
                     /\ response'.result = "OutsideWorkingHours"
                     /\ sess' = sess
                     /\ appointments' = appointments
          /\ Receives(s, "reschedule") =>
              \A r \in Ranges, id \in Stored :
                (/\ Booked(id)
                 /\ ClosedOn(appointments[id].master_id, r[1])
                 /\ RescheduleAppointment(s, id, r[1], r[2]))
                  => /\ response'.op = "reschedule"
                     /\ response'.result = "OutsideWorkingHours"
                     /\ sess' = sess
                     /\ appointments' = appointments]_vars

\* a request was refused for a closed day while its master had windows on
\* another weekday
C18_ClosedDayDespiteOtherDays ==
    /\ response.result = "OutsideWorkingHours"
    /\ response.detail = "No working hours configured for this day"
    /\ response.open_days # {}

\* C19: a request that fails writes nothing: the table of appointments (the
\* set of rows, every field of each, and the id sequence) changes only in
\* the step that commits a request and answers it "ok"; every step that
\* answers with an error leaves the table as it is.
C19_NoPartialWrites ==
    [][/\ (appointments' # appointments \/ next_id' # next_id)
            => \E s \in Sessions :
                  /\ sess[s].pc = "commit"
                  /\ sess'[s] = IdleSession
                  /\ response'.op = sess[s].op
                  /\ response'.result = "ok"
       /\ \A s \in Sessions :
            (/\ \/ Receives(s, "create") \/ Receives(s, "reschedule")
                \/ Receives(s, "cancel") \/ sess[s].pc # "done"
             /\ sess'[s] = IdleSession
             /\ response'.result # "ok")
                => (appointments' = appointments /\ next_id' = next_id)]_vars

\* a reschedule of a booked appointment has been answered MasterBusy, and
\* the appointment is stored with a range that is in conflict with no other
C19_RefusedRescheduleLeftNoTrace ==
    \E id \in Stored :
        /\ response = Response("reschedule", id, "MasterBusy")
        /\ Booked(id)
        /\ \A b \in Stored \ {id} :
              (Booked(b) /\ appointments[b].master_id = appointments[id].master_id)
                => ~ RangesOverlap(id, b)

\* C20: a reschedule of an id that is not stored, or of an appointment that
\* is not booked, is answered AppointmentNotFound whatever the new range is
\* (within working hours or not, free or busy): the request reaches neither
\* check and nothing is written.
C20_RescheduleNotFoundFirst ==
    [][\A s \in Sessions : Receives(s, "reschedule") =>
          \A id \in 1..next_id, r \in Ranges :
             (/\ id \in Stored => ~ Booked(id)
              /\ RescheduleAppointment(s, id, r[1], r[2]))
                => /\ response' = Response("reschedule", id, "AppointmentNotFound")
                   /\ sess' = sess
                   /\ appointments' = appointments]_vars

\* a reschedule of an id that was never stored has been answered AppointmentNotFound
C20_RescheduleOfAbsentRefused ==
    /\ response.op = "reschedule"
    /\ response.result = "AppointmentNotFound"
    /\ response.appointment_id \notin Stored

\* C21: a successful reschedule changes start_at and end_at of its appointment
\* to the range asked for and nothing else: the appointment was and stays
\* booked, its master, customer, created_at and cancelled_at are unchanged,
\* the checks were made for the master stored in it, and no other
\* appointment is created or changed.
C21_RescheduleFrame ==
    [][\A s \in Sessions :
          (sess[s].op = "reschedule" /\ Commit(s))
            => LET id == sess[s].appointment_id
               IN  /\ response' = Response("reschedule", id, "ok")
                   /\ Booked(id)
                   /\ sess[s].master_id = appointments[id].master_id
                   /\ appointments' =
                         [appointments EXCEPT ![id].start_at = sess[s].start_at,
                                              ![id].end_at = sess[s].end_at]
                   /\ next_id' = next_id]_vars

\* a reschedule has succeeded and its appointment is stored, booked
C21_RescheduleSucceeded ==
    \E id \in Stored :
        /\ response = Response("reschedule", id, "ok")
        /\ Booked(id)

\* C22: a successful cancel sets the status of its appointment to cancelled
\* and cancelled_at to a non-null instant, and changes nothing else: start_at,
\* end_at, master, customer and created_at are unchanged and no other
\* appointment is created or changed.
C22_CancelFrame ==
    [][\A s \in Sessions :
          (sess[s].op = "cancel" /\ Commit(s))
            => LET id == sess[s].appointment_id
               IN  /\ response' = Response("cancel", id, "ok")
                   /\ DOMAIN appointments' = Stored
                   /\ appointments'[id].status = "cancelled"
                   /\ appointments'[id].cancelled_at # NULL
                   /\ appointments' =
                         [appointments EXCEPT
                             ![id].status = "cancelled",
                             ![id].cancelled_at = appointments'[id].cancelled_at]
                   /\ next_id' = next_id]_vars

\* a cancel has succeeded and its appointment is stored, cancelled and stamped
C22_CancelSucceeded ==
    \E id \in Stored :
        /\ response = Response("cancel", id, "ok")
        /\ Cancelled(id)
        /\ appointments[id].cancelled_at # NULL

\* C23: a successful create inserts one appointment under an id no stored
\* appointment has: booked, with the master, customer, start_at and end_at of
\* the request and cancelled_at unset; the appointments stored before are
\* unchanged.
C23_CreateFrame ==
    [][\A s \in Sessions :
          (sess[s].op = "create" /\ Commit(s))
            => /\ response' = Response("create", 0, "ok")
               /\ \E id \in DOMAIN appointments' :
                     /\ id \notin Stored
                     /\ DOMAIN appointments' = Stored \cup {id}
                     /\ appointments'[id].master_id = sess[s].master_id
                     /\ appointments'[id].customer_telegram_id
                            = sess[s].customer_telegram_id
                     /\ appointments'[id].start_at = sess[s].start_at
                     /\ appointments'[id].end_at = sess[s].end_at
                     /\ appointments'[id].status = "booked"
                     /\ appointments'[id].cancelled_at = NULL
               /\ \A id \in Stored : appointments'[id] = appointments[id]]_vars

\* a create has succeeded when an appointment was already stored
C23_CreateBesideStored ==
    /\ response = Response("create", 0, "ok")
    /\ Cardinality(Stored) >= 2

\* another master has a booked appointment, or a request in progress, whose
\* range overlaps the range the request of session s asks for
OtherMasterOverlaps(s) ==
    \/ \E id \in Stored :
          /\ Booked(id)
          /\ appointments[id].master_id # sess[s].master_id
          /\ appointments[id].start_at < sess[s].end_at
          /\ sess[s].start_at < appointments[id].end_at
    \/ \E t \in Sessions \ {s} :
          /\ sess[t].pc \in {"overlap", "commit"}
          /\ sess[t].master_id # sess[s].master_id
          /\ sess[t].start_at < sess[s].end_at
          /\ sess[s].start_at < sess[t].end_at

\* C24: what a create or reschedule for a master is answered depends on that
\* master's windows and booked appointments alone, under every interleaving:
\* the conflict check passes when only another master has an overlapping
\* booking or request, and the availability check passes if and only if the
\* master's own windows hold the range, whatever windows another master has.
C24_MastersIndependent ==
    [][\A s \in Sessions :
          /\ (/\ CheckNoOverlap(s)
              /\ OtherMasterOverlaps(s)
              /\ Conflicting(s) = {})
                => (sess'[s].pc = "commit" /\ response' = response)
          /\ Receives(s, "create") =>
              \A r \in MondayRanges, m \in Masters, c \in Customers :
                 CreateAppointment(s, m, c, r[1], r[2])
                   => (sess'[s].pc = "overlap" <=> FitsOneWindow(m, r[1], r[2]))
          /\ Receives(s, "reschedule") =>
              \A r \in MondayRanges, id \in Stored :
                 (Booked(id) /\ RescheduleAppointment(s, id, r[1], r[2]))
                   => (sess'[s].pc = "overlap"
                         <=> FitsOneWindow(appointments[id].master_id, r[1], r[2]))]_vars

\* two creates for different masters and the same range are in progress at
\* once, both past the conflict check
C24_TwoCreatesPastCheck ==
    \E s \in Sessions, t \in Sessions :
        /\ sess[s].op = "create" /\ sess[s].pc = "commit"
        /\ sess[t].op = "create" /\ sess[t].pc = "commit"
        /\ sess[s].master_id # sess[t].master_id
        /\ sess[s].start_at = sess[t].start_at
        /\ sess[s].end_at = sess[t].end_at

\* C25: every stored window has start_time < end_time.
C25_WindowsNotEmpty ==
    \A wh \in working_hours : wh.start_time < wh.end_time

\* C26: when a replacement of the working hours of a master commits, the
\* windows of that master are exactly those of its body and the windows of
\* every other master are unchanged.
C26_ReplacedAsUnit ==
    [][\A s \in Sessions :
          CommitWorkingHours(s)
            => /\ {wh \in working_hours' : wh.master_id = sess[s].master_id}
                    = rows_of(sess[s].master_id, sess[s].body)
               /\ {wh \in working_hours' : wh.master_id # sess[s].master_id}
                    = {wh \in working_hours : wh.master_id # sess[s].master_id}]_vars

\* the request of session s ends in this step: it is refused when it is
\* received, or it is in progress and the session is released
Ends(s) ==
    \/ /\ sess' = sess
       /\ \/ Receives(s, "create") \/ Receives(s, "reschedule")
          \/ Receives(s, "cancel")
    \/ /\ sess[s].pc \in {"overlap", "commit"}
       /\ sess'[s] = IdleSession

\* C27: a create, reschedule or cancel that ends with OutsideWorkingHours is
\* answered 422, with MasterBusy 409 and with AppointmentNotFound 404, and in
\* each of these cases nothing of the session is committed; a success status
\* (201 for create, 200 otherwise) is answered only by the step that commits
\* the session's write.
C27_TransportMapping ==
    [][\A s \in Sessions : Ends(s) =>
          /\ response'.result = "OutsideWorkingHours"
                => status_code(response') = 422
          /\ response'.result = "MasterBusy"
                => status_code(response') = 409
          /\ response'.result = "AppointmentNotFound"
                => status_code(response') = 404
          /\ response'.result \in BookingError
                => (appointments' = appointments /\ next_id' = next_id)
          /\ status_code(response') \in {200, 201}
                => (sess[s].pc = "commit" /\ Commit(s))]_vars

\* a reschedule of a stored, booked appointment has been answered 422
C27_RescheduleAnswered422 ==
    /\ response.op = "reschedule"
    /\ status_code(response) = 422
    /\ response.appointment_id \in Stored
    /\ Booked(response.appointment_id)

\* some booked appointment of master m overlaps the range
BusyAt(m, start_at, end_at) ==
    \E id \in Stored :
        /\ Booked(id)
        /\ appointments[id].master_id = m
        /\ appointments[id].start_at < end_at
        /\ start_at < appointments[id].end_at

\* C28: create runs the range guard first, then the availability check, then
\* the conflict check: a create with end_at <= start_at that no window holds
\* is answered by the range guard's error; a create for a non-empty range
\* that no window holds and that overlaps a booked appointment of the master
\* is answered OutsideWorkingHours; and the conflict check runs only for a
\* create that has passed both.
C28_OrderOfChecks ==
    [][\A s \in Sessions :
          /\ Receives(s, "create") =>
              \A r \in Ranges, m \in Masters, c \in Customers :
                CreateAppointment(s, m, c, r[1], r[2])
                  => /\ (r[2] <= r[1] /\ ~ FitsOneWindow(m, r[1], r[2]))
                          => /\ response' = Response("create", 0, "ValueError")
                             /\ sess' = sess
                     /\ (/\ r[1] < r[2]
                         /\ ~ FitsOneWindow(m, r[1], r[2])
                         /\ BusyAt(m, r[1], r[2]))
                          => /\ response'.op = "create"
                             /\ response'.result = "OutsideWorkingHours"
                             /\ sess' = sess
          /\ (CheckNoOverlap(s) /\ sess[s].op = "create")
                => /\ sess[s].start_at < sess[s].end_at
                   /\ FitsOneWindow(sess[s].master_id, sess[s].start_at,
                                    sess[s].end_at)]_vars

\* a create has been answered OutsideWorkingHours while a booked appointment
\* of its master overlapped the range it asked for
C28_OutsideAndOverlapping ==
    /\ response.op = "create"
    /\ response.result = "OutsideWorkingHours"
    /\ response.busy

\* C29: in every reachable state, under every interleaving of requests, a
\* stored appointment has a non-null cancelled_at if and only if its status
\* is cancelled.
C29_StampedIffCancelled ==
    \A id \in Stored :
        appointments[id].cancelled_at # NULL <=> Cancelled(id)

\* a cancelled appointment with its stamp beside a booked one without
C29_CancelledBesideBooked ==
    \E a \in Stored, b \in Stored :
        /\ Cancelled(a) /\ appointments[a].cancelled_at # NULL
        /\ Booked(b) /\ appointments[b].cancelled_at = NULL

\* C30: under every interleaving of start, stop and restart calls at most
\* one polling task is live and at most one caller is inside the locked part
\* of start() or stop(), which is the holder of the lock; and a start() that
\* finds the status running returns True and leaves the manager, the live
\* tasks and the number of Bots created as they are.
C30_AtMostOneBot ==
    /\ [](/\ Cardinality(tasks) <= 1
          /\ \A c \in Callers :
                calls[c].pc \in {"token", "settings", "get_me", "close"}
                   <=> manager.lock = c)
    /\ [][\A c \in Callers :
             (start_lock(c) /\ manager.status = "running")
               => /\ calls'[c] = IdleCall("True")
                  /\ manager' = manager
                  /\ tasks' = tasks
                  /\ created' = created]_vars

\* two callers have had True from start() when one Bot had been created in
\* all, whose polling task is live
C30_SecondStartFoundRunning ==
    /\ created = 1
    /\ tasks = {1}
    /\ \E c \in Callers, d \in Callers :
          /\ c # d
          /\ calls[c] = IdleCall("True")
          /\ calls[d] = IdleCall("True")

\* no start() or stop() of the manager is past its lock
Quiescent ==
    \A c \in Callers : calls[c].pc \notin {"token", "settings", "get_me", "close"}

\* the manager holds a Bot, a dispatcher, a Make client and a polling task
AllHeld ==
    /\ manager.bot # NULL
    /\ manager.dp # NULL
    /\ manager.make_client # NULL
    /\ manager.polling_task # NULL

\* C31: whenever no start() or stop() is in progress, the status is running
\* if and only if Bot, dispatcher, Make client and polling task are all set,
\* and when the status is not running the manager holds no Bot, so that
\* get_bot answers 503.
C31_StateMatchesResources ==
    Quiescent =>
        /\ manager.status = "running" <=> AllHeld
        /\ manager.status # "running"
              => (manager.bot = NULL /\ get_bot(manager.bot) = 503)

\* C32: when start() returns, it returns True if and only if the status is
\* running; when it returns False the status is stopped or error and
\* error_message is not empty; the status is never starting after it.
C32_ResultAgreesWithState ==
    [][\A c \in Callers :
          (/\ calls[c].pc \in {"start", "token", "settings", "get_me"}
           /\ calls'[c].pc = "idle")
            => /\ calls'[c].result \in {"True", "False"}
               /\ calls'[c].result = "True" <=> manager'.status = "running"
               /\ calls'[c].result = "False"
                    => /\ manager'.status \in {"stopped", "error"}
                       /\ manager'.error_message # ""
               /\ manager'.status # "starting"]_vars

\* C33: a start() that reads the settings of a disabled bot (the row exists
\* with is_enabled false), be it called by itself or as the second half of
\* restart(), returns False with status stopped and creates no Bot and no
\* polling task.
C33_DisabledNeverStarted ==
    [][\A c \in Callers :
          (/\ start_settings(c, FALSE)
           /\ bot_settings.exists
           /\ ~ bot_settings.is_enabled)
            => /\ calls'[c] = IdleCall("False")
               /\ manager'.status = "stopped"
               /\ manager'.bot = manager.bot
               /\ manager'.polling_task = manager.polling_task
               /\ created' = created
               /\ tasks' = tasks]_vars

\* a start() has refused a disabled bot that has a token, after a Bot had
\* been created and stopped
C33_RefusedWhileDisabled ==
    /\ manager.status = "stopped"
    /\ manager.error_message = "Bot is disabled"
    /\ bot_settings.exists
    /\ ~ bot_settings.is_enabled
    /\ bot_settings.bot_token = "good"
    /\ created >= 1
    /\ tasks = {}

\* C34: a stop() called while the status is stopped, stopping or error
\* returns without changing the manager; a stop() called while the bot is
\* running ends with the polling task done, all four references cleared,
\* status stopped and started_at cleared.
C34_StopFrame ==
    [][\A c \in Callers :
          /\ (stop_lock(c) /\ manager.status \notin {"running", "starting"})
                => (manager' = manager /\ tasks' = tasks)
          /\ (\E outcome \in {"ok", "task_raised", "close_raised"} :
                 stop_close(c, outcome))
                => /\ manager'.polling_task = NULL
                   /\ manager'.make_client = NULL
                   /\ manager'.bot = NULL
                   /\ manager'.dp = NULL
                   /\ manager'.status = "stopped"
                   /\ manager'.started_at = NULL
                   /\ manager.polling_task \notin tasks']_vars

\* the send of make request id is in its loop
Sending(id) == id \in DOMAIN sends /\ sends[id].pc = "post"

\* send_incoming_message of make request id has returned or raised
Returned(id) == id \in DOMAIN sends /\ sends[id].pc # "post"

\* C35: send_incoming_message makes at most 3 POSTs and always ends: it
\* returns after the first POST that succeeds, goes on to another POST only
\* after ConnectError, ReadTimeout or RemoteProtocolError in the first or
\* second, raises any other failure (an HTTP error status too) at once, and
\* raises the third transient failure.
C35_BoundedRetries ==
    /\ [](\A id \in DOMAIN sends : sends[id].posts <= 3)
    /\ [][\A id \in 1..MaxMessages, outcome \in PostOutcomes :
             post(id, outcome)
               => /\ sends'[id].posts = sends[id].posts + 1
                  /\ IF outcome = "ok"
                       THEN /\ sends'[id].pc = "store"
                            /\ sends'[id].raised = <<>>
                     ELSE IF /\ outcome \in {"ConnectError", "ReadTimeout",
                                            "RemoteProtocolError"}
                             /\ sends[id].posts < 2
                       THEN /\ sends'[id].pc = "post"
                            /\ sends'[id].raised = <<>>
                     ELSE /\ sends'[id].pc = "store"
                          /\ sends'[id].raised = <<outcome>>]_vars
    /\ \A id \in 1..MaxMessages : Sending(id) ~> Returned(id)

\* a send has raised ConnectError after three POSTs, none of which reached
\* Make
C35_ThirdFailureRaised ==
    \E id \in DOMAIN sends :
        /\ sends[id].posts = 3
        /\ sends[id].raised = <<"ConnectError">>
        /\ ~ sends[id].delivered

\* C36: once the status of a make request is completed it never changes
\* again; the background task that finishes after the callback leaves it
\* completed.
C36_CompletedIsFinal ==
    [][\A id \in DOMAIN make_requests :
          make_requests[id].status = "completed"
            => make_requests'[id].status = "completed"]_vars

\* C37: the row of a message is committed with status created before the
\* first POST; the step in which the background task finishes leaves the
\* status sent and last_error None when the send returned, failed and
\* last_error set when it raised; no row has status created once its
\* background task has finished.
C37_LeavesCreated ==
    /\ [](\A id \in DOMAIN sends :
             /\ id \in DOMAIN make_requests
             /\ sends[id].pc = "done" => make_requests[id].status # "created")
    /\ [][/\ \A chat_id \in Chats :
               on_any_message(chat_id)
                 => \E id \in DOMAIN make_requests' \ DOMAIN make_requests :
                       /\ make_requests'[id].status = "created"
                       /\ sends'[id].posts = 0
          /\ \A id \in 1..MaxMessages :
               store(id)
                 => /\ sends'[id].pc = "done"
                    /\ IF sends[id].raised = <<>>
                         THEN /\ make_requests'[id].status = "sent"
                              /\ make_requests'[id].last_error = <<>>
                         ELSE /\ make_requests'[id].status = "failed"
                              /\ make_requests'[id].last_error # <<>>]_vars

\* the background task of a request has finished after a send that raised:
\* the row is failed and holds the text
C37_FailedWithText ==
    \E id \in DOMAIN sends :
        /\ sends[id].pc = "done"
        /\ make_requests[id].status = "failed"
        /\ make_requests[id].last_error # <<>>

\* C38: a callback that reaches the handler with a correlation id no row has
\* is answered 404, sends nothing and changes no row; with the correlation
\* id of a row it sends the text to the chat of that row, and the status of
\* the row is completed once the send has succeeded and not before: no row
\* changes before the send or when the send raises.
C38_CallbackHandling ==
    [][/\ \A n \in 0..MaxMessages, text \in Texts :
            make_callback(uuid4(n), text, 1)
              => /\ make_requests' = make_requests
                 /\ outbox' = outbox
                 /\ IF by_correlation_id(uuid4(n)) = {}
                      THEN reply' = 404 /\ callback' = callback
                      ELSE /\ callback'.id \in by_correlation_id(uuid4(n))
                           /\ callback'.text = text
       /\ callback_send(TRUE)
            => (make_requests' = make_requests /\ outbox' = outbox)
       /\ callback_send(FALSE)
            => /\ outbox' = outbox \cup {<<make_requests[callback.id].chat_id,
                                          callback.text>>}
               /\ make_requests' =
                     [make_requests EXCEPT ![callback.id].status = "completed"]
               /\ reply' = 200]_vars

====
